---- MODULE Spec2Model ----
(***************************************************************************)
(* Model of the retrieval and answering core of the IRRA study assistant:  *)
(*   src/src/agent.py      rag_answer (the self-reflection loop)           *)
(*   src/src/retriever.py  BM25Index, reciprocal_rank_fusion,              *)
(*                         rerank_documents                                *)
(*   src/src/citations.py  format_citations_block                          *)
(* Strings are sequences of one-character strings, so that slicing,        *)
(* lower-casing and whitespace splitting are computed, not assumed.        *)
(* Confidences are in tenths (0.6 is 6).                                   *)
(***************************************************************************)
EXTENDS Integers, Sequences, FiniteSets, TLC

\* ------------------------------------------------------------------ bounds
\* config.MAX_REFLECTION_ITERATIONS ranges over 0..MaxReflect
MaxReflect == 2
\* longest ranked list handed to fusion / reranking
MaxListLen == 2
\* most ranked lists handed to one fusion call
MaxLists == 2
\* largest k / top_k argument
MaxK == 3
\* most chunks in the vector store
MaxCorpus == 3
\* files in one upload request
MaxFiles == 2
\* rows ever inserted into the questions table
MaxQuestions == 3
\* most documents in one add_documents call: two full batches and one more
MaxDocs == 41

\* ------------------------------------------------------- program constants
\* config.CONFIDENCE_THRESHOLD = 0.6, in tenths
CONFIDENCE_THRESHOLD == 6
\* reflection.get("overall_confidence", 0.5), in tenths
DEFAULT_CONFIDENCE == 5
\* doc.page_content[:200]
KEY_PREFIX_LEN == 200
\* reciprocal_rank_fusion(results_lists, k=60)
RRF_K == 60
\* add_documents: batch_size = 20
batch_size == 20
\* add_documents: max_retries = 3
max_retries == 3
\* config.TOP_K_RERANK
TOP_K_RERANK == 5
\* config.TOP_K_RETRIEVAL
TOP_K_RETRIEVAL == 10

None == "None"

\* ------------------------------------------------------------ string model
Min(a, b) == IF a <= b THEN a ELSE b
Max(a, b) == IF a >= b THEN a ELSE b

\* s[:n] of Python for a sequence s and any integer n (a negative n counts from the end)
SliceTo(s, n) ==
  IF n >= 0 THEN SubSeq(s, 1, Min(n, Len(s)))
  ELSE SubSeq(s, 1, Max(Len(s) + n, 0))

\* str.lower() on the alphabet of the model
LowerChar(c) == CASE c = "A" -> "a" [] c = "B" -> "b" [] c = "C" -> "c" [] OTHER -> c
Lower(s) == [i \in 1..Len(s) |-> LowerChar(s[i])]

IsSpace(c) == c \in {" ", "\n", "\t"}

\* str.split() with no argument: the maximal runs of non-whitespace characters,
\* in order. A token starts where a non-space follows the start or a space and
\* ends before the next space.
TokenStarts(s) == {i \in DOMAIN s : ~IsSpace(s[i]) /\ (i = 1 \/ IsSpace(s[i - 1]))}
TokenEnd(s, i) ==
  CHOOSE j \in i..Len(s) :
    /\ \A m \in i..j : ~IsSpace(s[m])
    /\ (j = Len(s) \/ IsSpace(s[j + 1]))
Split(s) ==
  LET starts == TokenStarts(s)
      nth(n) == CHOOSE i \in starts : Cardinality({x \in starts : x < i}) = n - 1
  IN [n \in 1..Cardinality(starts) |-> SubSeq(s, nth(n), TokenEnd(s, nth(n)))]

\* text.lower().split(), the tokenizer of retriever.py
Tokenize(s) == Split(Lower(s))

\* ---------------------------------------------------------- the documents
\* A Document is page_content plus metadata. The model's documents are the
\* entries of DocTable; a state holds a document by its index in the table.
Pad == [i \in 1..KEY_PREFIX_LEN |-> "p"]

DocTable == <<
  [page_content |-> <<"a", " ", "b">>,      source_file |-> "notes.pdf",  page_number |-> 1],
  [page_content |-> <<"a", " ", "b">>,      source_file |-> "slides.pdf", page_number |-> 2],
  [page_content |-> Pad \o <<" ", "x">>,    source_file |-> "notes.pdf",  page_number |-> 1],
  [page_content |-> Pad \o <<" ", "y">>,    source_file |-> "notes.pdf",  page_number |-> 3],
  [page_content |-> <<"A", " ", " ", "c">>, source_file |-> "slides.pdf", page_number |-> 2] >>

Docs == DOMAIN DocTable

\* sequences over S of length at most n
SeqsUpTo(S, n) == UNION {[1..m -> S] : m \in 0..n}

Range(s) == {s[i] : i \in DOMAIN s}

\* f as an explicit table: every value is computed once, when the table is built
Table(f) == f @@ << >>

\* ------------------------------------------------------------- citations.py
\* format_citations_block: one citation per distinct (source_file, page_number),
\* in first-seen order; "" when there is none.
RECURSIVE CitationKeys(_, _)
CitationKeys(documents, seen) ==
  IF documents = <<>> THEN <<>>
  ELSE LET meta == DocTable[Head(documents)]
           key == <<meta.source_file, meta.page_number>>
       IN IF key \in seen THEN CitationKeys(Tail(documents), seen)
          ELSE <<key>> \o CitationKeys(Tail(documents), seen \cup {key})

\* The block is held as the sequence of its citations; the empty string the code
\* returns for no citation is the empty sequence.
format_citations_block(documents) == CitationKeys(documents, {})

\* ------------------------------------------------ retriever.py: rank fusion
\* doc.page_content[:200], the deduplication key of reciprocal_rank_fusion
DocKey == Table([d \in Docs |-> SliceTo(DocTable[d].page_content, KEY_PREFIX_LEN)])

\* sorted(seq, key=score, reverse=True): descending, and stable (elements of equal
\* score keep their order). score is a function on the elements.
InsertDesc(sorted, x, score) ==
  LET p == Cardinality({j \in DOMAIN sorted : score[sorted[j]] >= score[x]})
  IN SubSeq(sorted, 1, p) \o <<x>> \o SubSeq(sorted, p + 1, Len(sorted))

RECURSIVE SortedDesc(_, _)
SortedDesc(seq, score) ==
  IF seq = <<>> THEN <<>>
  ELSE InsertDesc(SortedDesc(SubSeq(seq, 1, Len(seq) - 1), score), seq[Len(seq)], score)

\* Scores are exact: 1/(k + rank + 1) is held as ScoreDen \div (k + rank + 1), where
\* ScoreDen is the product of the denominators k+1 .. k+n of the ranks 0 .. n-1.
RECURSIVE ScoreDen(_, _)
ScoreDen(k, n) == IF n = 0 THEN 1 ELSE (k + n) * ScoreDen(k, n - 1)

RECURSIVE MaxLen(_)
MaxLen(lists) == IF lists = <<>> THEN 0 ELSE Max(Len(Head(lists)), MaxLen(Tail(lists)))

\* enumerate(result_list): the (rank, doc) pairs of one list
Enumerate(result_list) == [i \in DOMAIN result_list |-> [rank |-> i - 1, doc |-> result_list[i]]]

\* the (rank, doc) pairs of all lists, in the order the two nested loops visit them
RECURSIVE Visits(_)
Visits(results_lists) ==
  IF results_lists = <<>> THEN <<>>
  ELSE Enumerate(Head(results_lists)) \o Visits(Tail(results_lists))

\* mutant: doc_map[key] = doc on every visit, so the last-seen instance is kept
RecordDocLastSeen(doc_map, key, doc) ==
  [x \in DOMAIN doc_map \cup {key} |-> IF x = key THEN doc ELSE doc_map[x]]

\* if key not in doc_map: doc_map[key] = doc   (retriever.py 107-108)
RecordDoc(doc_map, key, doc) ==
  IF key \in DOMAIN doc_map THEN doc_map
  ELSE [x \in DOMAIN doc_map \cup {key} |-> IF x = key THEN doc ELSE doc_map[x]]

\* retriever.py 104-110: the scan. keys is the insertion order of the two dicts.
RECURSIVE RRFScan(_, _, _, _, _, _)
RRFScan(visits, k, den, keys, doc_map, doc_scores) ==
  IF visits = <<>> THEN [keys |-> keys, doc_map |-> doc_map, doc_scores |-> doc_scores]
  ELSE LET v == Head(visits)
           key == DocKey[v.doc]
           seen == key \in DOMAIN doc_map
           scores0 == IF seen THEN doc_scores
                      ELSE [x \in DOMAIN doc_scores \cup {key} |->
                              IF x = key THEN 0 ELSE doc_scores[x]]
           scores1 == [scores0 EXCEPT ![key] = @ + (den \div (k + v.rank + 1))]
       IN RRFScan(Tail(visits), k, den,
                  IF seen THEN keys ELSE Append(keys, key),
                  RecordDoc(doc_map, key, v.doc), scores1)

\* retriever.py 84-115
reciprocal_rank_fusion(results_lists, k) ==
  LET den == ScoreDen(k, MaxLen(results_lists))
      scan == RRFScan(Visits(results_lists), k, den, <<>>, << >>, << >>)
      sorted_keys == SortedDesc(scan.keys, scan.doc_scores)
  IN [i \in DOMAIN sorted_keys |-> scan.doc_map[sorted_keys[i]]]

VARIABLES
  f_pc,        \* "call" before reciprocal_rank_fusion runs, "done" after
  f_lists,     \* the results_lists argument
  f_out        \* the returned list

fusionVars == <<f_pc, f_lists, f_out>>

\* the chunks handed to fusion: a short one, and two that agree on their first 200
\* characters and differ after them and in their metadata
FuseDocs == {2, 3, 4}
RankedLists == SeqsUpTo(FuseDocs, MaxListLen)

FusionInit ==
  /\ f_pc = "call"
  /\ f_lists \in SeqsUpTo(RankedLists, MaxLists)
  /\ f_out = <<>>

FusionIdle == f_pc = "idle" /\ f_lists = <<>> /\ f_out = <<>>

Fuse ==
  /\ f_pc = "call"
  /\ f_out' = reciprocal_rank_fusion(f_lists, RRF_K)
  /\ f_pc' = "done"
  /\ UNCHANGED f_lists

\* --------------------------------------------------- retriever.py: reranking
\* An optional integer argument: given FALSE is None.
NoneArg == [given |-> FALSE, v |-> 0]
IntArg(n) == [given |-> TRUE, v |-> n]

\* What the cross-encoder does in one call: it cannot be imported or constructed,
\* predict raises, or predict returns one score per document.
ModelOutcomes(n) ==
  {[kind |-> "load_fails", scores |-> <<>>], [kind |-> "predict_raises", scores |-> <<>>]}
  \cup {[kind |-> "scores", scores |-> sc] : sc \in [1..n -> {0, 1}]}

\* mutant: the fallback returns the documents without cutting them to top_k
rerank_documents_uncut_fallback(q, documents, top_k, model) ==
  LET k == IF top_k.given THEN top_k.v ELSE TOP_K_RERANK
  IN IF documents = <<>> THEN [raised |-> FALSE, value |-> <<>>]
     ELSE IF model.kind = "scores"
     THEN LET order == SortedDesc([i \in DOMAIN documents |-> i], model.scores)
          IN [raised |-> FALSE,
              value |-> SliceTo([i \in DOMAIN order |-> documents[order[i]]], k)]
     ELSE [raised |-> FALSE, value |-> documents]

\* retriever.py 120-151. Everything after the empty check runs inside
\* try / except Exception, so no failure of the model leaves the function.
rerank_documents(q, documents, top_k, model) ==
  LET k == IF top_k.given THEN top_k.v ELSE TOP_K_RERANK
  IN IF documents = <<>> THEN [raised |-> FALSE, value |-> <<>>]
     ELSE IF model.kind = "scores"
     THEN \* sorted(zip(documents, scores), key=score, reverse=True)[:top_k]
          LET order == SortedDesc([i \in DOMAIN documents |-> i], model.scores)
          IN [raised |-> FALSE,
              value |-> SliceTo([i \in DOMAIN order |-> documents[order[i]]], k)]
     ELSE [raised |-> FALSE, value |-> SliceTo(documents, k)]

VARIABLES
  r_pc,          \* "call" before rerank_documents runs, "done" after
  r_documents,   \* the documents argument
  r_top_k,       \* the top_k argument
  r_model,       \* what the cross-encoder does in this call
  r_out          \* what the call did: raised, or the returned list

rerankVars == <<r_pc, r_documents, r_top_k, r_model, r_out>>

TopKArgs == {NoneArg} \cup {IntArg(n) : n \in -1..MaxK}

RerankInit ==
  /\ r_pc = "call"
  /\ r_documents \in SeqsUpTo(Docs, MaxListLen)
  /\ r_top_k \in TopKArgs
  /\ r_model \in ModelOutcomes(Len(r_documents))
  /\ r_out = [raised |-> FALSE, value |-> <<>>]

RerankIdle ==
  /\ r_pc = "idle" /\ r_documents = <<>> /\ r_top_k = NoneArg
  /\ r_model = [kind |-> "load_fails", scores |-> <<>>]
  /\ r_out = [raised |-> FALSE, value |-> <<>>]

Rerank ==
  /\ r_pc = "call"
  /\ r_out' = rerank_documents("q", r_documents, r_top_k, r_model)
  /\ r_pc' = "done"
  /\ UNCHANGED <<r_documents, r_top_k, r_model>>

\* ----------------------------------------------- retriever.py: BM25Index
\* doc.page_content.lower().split() of every document
DocTokens == Table([d \in Docs |-> Tokenize(DocTable[d].page_content)])

\* The scores are those of rank_bm25's BM25Okapi, which retriever.py constructs
\* with its defaults k1 = 1.5, b = 0.75, epsilon = 0.25:
\*   idf(w)   = ln(N - n(w) + 0.5) - ln(n(w) + 0.5), n(w) the number of documents
\*              holding w; a negative idf is replaced by epsilon * (mean idf);
\*   score(d) = sum over the query tokens q of
\*              idf(q) * f * (k1 + 1) / (f + k1 * (1 - b + b * len(d) / avgdl)),
\*              f the count of q in d, and idf 0 for a token outside the corpus.
\* Logarithms are fixed-point, ln(x) * 10^4 for odd x (the arguments doubled), and
\* every idf is scaled by 4 * (vocabulary size) so that epsilon * mean is exact.
\* The sign of every idf, exact zero included, is that of the real value.
LnTable == <<0, 10986, 16094, 19459, 21972, 23979, 25649, 27081>>
LnOdd(x) == LnTable[(x + 1) \div 2]

RECURSIVE SumOver(_, _)
SumOver(S, f) ==
  IF S = {} THEN 0
  ELSE LET x == CHOOSE y \in S : TRUE IN f[x] + SumOver(S \ {x}, f)

Count(tokens, w) == Cardinality({i \in DOMAIN tokens : tokens[i] = w})

\* BM25Okapi(tokenized_docs): the statistics the constructor computes from the
\* tokenized documents (docs is the sequence of the documents indexed)
BM25Okapi(docs) ==
  LET tokens == [i \in DOMAIN docs |-> DocTokens[docs[i]]]
      vocab == UNION {Range(tokens[i]) : i \in DOMAIN tokens}
      nd == [w \in vocab |-> Cardinality({i \in DOMAIN tokens : w \in Range(tokens[i])})]
      raw == [w \in vocab |-> LnOdd(2 * (Len(docs) - nd[w]) + 1) - LnOdd(2 * nd[w] + 1)]
      idf_sum == SumOver(vocab, raw)
  IN [corpus_size |-> Len(docs),
      tokens |-> tokens,
      total_len |-> SumOver(DOMAIN tokens, [i \in DOMAIN tokens |-> Len(tokens[i])]),
      idf |-> [w \in vocab |->
                 IF raw[w] < 0 THEN idf_sum ELSE 4 * Cardinality(vocab) * raw[w]]]

\* the statistics of every corpus the vector store can hold, computed once
Distinct(seq) == \A i, j \in DOMAIN seq : i # j => seq[i] # seq[j]
CorpusDocs == {1, 3, 5}
Corpora == {c \in SeqsUpTo(CorpusDocs, MaxCorpus) : c # <<>> /\ Distinct(c)}
OkapiTable == Table([c \in Corpora |-> BM25Okapi(c)])

\* one query token's part of the score of document i
TermScore(okapi, i, q) ==
  LET f == Count(okapi.tokens[i], q)
      T == okapi.total_len
      dl == Len(okapi.tokens[i])
      idf == IF q \in DOMAIN okapi.idf THEN okapi.idf[q] ELSE 0
  IN (idf * 20 * f * T) \div (8 * f * T + 3 * T + 9 * dl * okapi.corpus_size)

\* bm25.get_scores(tokenized_query): one score per indexed document
RECURSIVE ScoreOf(_, _, _)
ScoreOf(okapi, i, tokenized_query) ==
  IF tokenized_query = <<>> THEN 0
  ELSE TermScore(okapi, i, Head(tokenized_query))
       + ScoreOf(okapi, i, Tail(tokenized_query))
get_scores(docs, tokenized_query) ==
  LET okapi == OkapiTable[docs]
  IN [i \in DOMAIN docs |-> ScoreOf(okapi, i, tokenized_query)]

\* the index object: documents is self.documents, bm25 is self.bm25 (None until the
\* first build, then the statistics of the documents it was built from)
NoBM25 == [built |-> FALSE, docs |-> <<>>]

\* the items of seq that satisfy keep, in order
RECURSIVE Filter(_, _)
Filter(seq, keep) ==
  IF seq = <<>> THEN <<>>
  ELSE (IF keep[Head(seq)] THEN <<Head(seq)>> ELSE <<>>) \o Filter(Tail(seq), keep)

\* mutant: the filter on the score is dropped
BM25SearchUnfiltered(documents, bm25, q, k) ==
  IF ~bm25.built \/ documents = <<>> THEN <<>>
  ELSE LET scores == get_scores(bm25.docs, Tokenize(q))
           top_indices == SliceTo(SortedDesc([i \in DOMAIN scores |-> i], scores), k)
       IN [j \in DOMAIN top_indices |-> documents[top_indices[j]]]

\* retriever.py 52-63: BM25Index.search
BM25Search(documents, bm25, q, k) ==
  IF ~bm25.built \/ documents = <<>> THEN <<>>
  ELSE LET scores == get_scores(bm25.docs, Tokenize(q))
           top_indices == SliceTo(SortedDesc([i \in DOMAIN scores |-> i], scores), k)
           kept == Filter(top_indices, [i \in DOMAIN scores |-> scores[i] > 0])
       IN [j \in DOMAIN kept |-> documents[kept[j]]]

VARIABLES
  corpus,          \* the chunks of the vector store collection, in insertion order
  idx_documents,   \* _bm25_index.documents
  idx_bm25,        \* _bm25_index.bm25
  built_from,      \* results["documents"] as the last build_from_vectorstore call read it
  s_pc,            \* "searched" when the last operation was a search, else "none"
  s_query, s_k,    \* the arguments of that search
  s_out            \* what that search returned

bm25Vars == <<corpus, idx_documents, idx_bm25, built_from, s_pc, s_query, s_k, s_out>>

\* the queries searched for, and the source files of the chunks the vector store
\* can hold (CorpusDocs)
SearchQueries == {<<"b">>, <<"A", " ", "b">>, <<"c">>, <<"z">>}
SourceFiles == {DocTable[d].source_file : d \in CorpusDocs}

\* no build_from_vectorstore call has run yet
NeverBuilt == [called |-> FALSE, documents |-> <<>>]

BM25Init ==
  /\ corpus = <<>>
  /\ idx_documents = <<>>
  /\ idx_bm25 = NoBM25
  /\ built_from = NeverBuilt
  /\ s_pc = "none"
  /\ s_query = <<>>
  /\ s_k = 0
  /\ s_out = <<>>

BM25Idle == BM25Init

\* an operation other than a search: no search result is at hand
NoSearch == s_pc' = "none" /\ s_query' = <<>> /\ s_k' = 0 /\ s_out' = <<>>

\* vectorstore.add_documents: a chunk enters the collection
CorpusAdd ==
  /\ Len(corpus) < MaxCorpus
  /\ \E d \in CorpusDocs \ Range(corpus) : corpus' = Append(corpus, d)
  /\ NoSearch
  /\ UNCHANGED <<idx_documents, idx_bm25, built_from>>

\* vectorstore.delete_documents_by_source: the chunks of one source file leave it
CorpusDelete ==
  /\ \E src \in SourceFiles :
       /\ \E i \in DOMAIN corpus : DocTable[corpus[i]].source_file = src
       /\ corpus' = Filter(corpus, [d \in Docs |-> DocTable[d].source_file # src])
  /\ NoSearch
  /\ UNCHANGED <<idx_documents, idx_bm25, built_from>>

\* retriever.py 33-50 and 77-79: rebuild_bm25_index -> build_from_vectorstore.
\* Nothing is assigned when the collection holds no document.
Rebuild ==
  /\ built_from' = [called |-> TRUE, documents |-> corpus]
  /\ IF corpus # <<>>
     THEN /\ idx_documents' = corpus
          /\ idx_bm25' = [built |-> TRUE, docs |-> corpus]
     ELSE UNCHANGED <<idx_documents, idx_bm25>>
  /\ NoSearch
  /\ UNCHANGED corpus

\* retriever.py 52-63: a search on the index as it stands
Search ==
  /\ \E q \in SearchQueries, k \in 0..MaxK :
       /\ s_query' = q
       /\ s_k' = k
       /\ s_out' = BM25Search(idx_documents, idx_bm25, q, k)
  /\ s_pc' = "searched"
  /\ UNCHANGED <<corpus, idx_documents, idx_bm25, built_from>>

\* ------------------- retriever.py: a rebuild running concurrently with a search
\* The API runs its synchronous handlers (POST /api/chat, DELETE /api/documents) on a
\* thread pool and the index is one module-level object without a lock: the statements
\* of build_from_vectorstore and of search interleave.
VARIABLES
  b_pc,          \* position of the rebuilding thread in build_from_vectorstore
  b_results,     \* its local results["documents"]
  t_scores,      \* the searching thread's local scores
  t_top,         \* its local top_indices
  t_j,           \* how many entries of top_indices its list comprehension has consumed
  t_obs_docs,    \* every value of self.documents the search has read
  t_obs_bm25     \* every value of self.bm25 the search has read

concVars == <<b_pc, b_results, t_scores, t_top, t_j, t_obs_docs, t_obs_bm25>>

NonEmptyCorpora == Corpora \ {<<>>}

\* the index was built over an earlier corpus; the collection has changed since; one
\* thread is about to rebuild and another is about to search
ConcInit ==
  /\ corpus \in NonEmptyCorpora
  /\ idx_documents \in NonEmptyCorpora
  /\ idx_bm25 = [built |-> TRUE, docs |-> idx_documents]
  /\ built_from = [called |-> TRUE, documents |-> idx_documents]
  /\ s_pc = "call"
  /\ s_query \in SearchQueries
  /\ s_k \in 0..MaxK
  /\ s_out = <<>>
  /\ b_pc = "read"
  /\ b_results = <<>>
  /\ t_scores = <<>>
  /\ t_top = <<>>
  /\ t_j = 0
  /\ t_obs_docs = {}
  /\ t_obs_bm25 = {}

ConcIdle ==
  /\ b_pc = "idle" /\ b_results = <<>> /\ t_scores = <<>> /\ t_top = <<>> /\ t_j = 0
  /\ t_obs_docs = {} /\ t_obs_bm25 = {}

searchLocals == <<s_pc, s_query, s_k, s_out, t_scores, t_top, t_j, t_obs_docs, t_obs_bm25>>

\* retriever.py 35-39: results = vs.get(); nothing more when it holds no document
BuildRead ==
  /\ b_pc = "read"
  /\ b_results' = corpus
  /\ built_from' = [called |-> TRUE, documents |-> corpus]
  /\ b_pc' = IF corpus # <<>> THEN "clear" ELSE "done"
  /\ UNCHANGED <<corpus, idx_documents, idx_bm25, searchLocals>>

\* retriever.py 40: self.documents = []
BuildClear ==
  /\ b_pc = "clear"
  /\ idx_documents' = <<>>
  /\ b_pc' = "append"
  /\ UNCHANGED <<corpus, idx_bm25, built_from, b_results, searchLocals>>

\* retriever.py 41-45: one turn of the loop, self.documents.append(Document(...))
BuildAppend ==
  /\ b_pc = "append"
  /\ IF Len(idx_documents) < Len(b_results)
     THEN /\ idx_documents' = Append(idx_documents, b_results[Len(idx_documents) + 1])
          /\ UNCHANGED b_pc
     ELSE /\ b_pc' = "assign"
          /\ UNCHANGED idx_documents
  /\ UNCHANGED <<corpus, idx_bm25, built_from, b_results, searchLocals>>

\* retriever.py 48-49: self.bm25 = BM25Okapi(tokenized_docs)
BuildAssign ==
  /\ b_pc = "assign"
  /\ idx_bm25' = [built |-> TRUE, docs |-> idx_documents]
  /\ b_pc' = "done"
  /\ UNCHANGED <<corpus, idx_documents, built_from, b_results, searchLocals>>

\* retriever.py 54-55: if self.bm25 is None or not self.documents: return []
SearchCheck ==
  /\ s_pc = "call"
  /\ t_obs_bm25' = t_obs_bm25 \cup {idx_bm25}
  /\ t_obs_docs' = IF idx_bm25.built THEN t_obs_docs \cup {idx_documents} ELSE t_obs_docs
  /\ s_pc' = IF ~idx_bm25.built \/ idx_documents = <<>> THEN "searched" ELSE "score"
  /\ UNCHANGED <<corpus, idx_documents, idx_bm25, built_from, b_pc, b_results,
                 s_query, s_k, s_out, t_scores, t_top, t_j>>

\* retriever.py 57-61: scores from self.bm25, then the top-k indices
SearchScore ==
  /\ s_pc = "score"
  /\ t_obs_bm25' = t_obs_bm25 \cup {idx_bm25}
  /\ t_scores' = get_scores(idx_bm25.docs, Tokenize(s_query))
  /\ t_top' = SliceTo(SortedDesc([i \in DOMAIN t_scores' |-> i], t_scores'), s_k)
  /\ s_pc' = "collect"
  /\ UNCHANGED <<corpus, idx_documents, idx_bm25, built_from, b_pc, b_results,
                 s_query, s_k, s_out, t_j, t_obs_docs>>

\* retriever.py 63: one turn of [self.documents[i] for i in top_indices if scores[i] > 0];
\* self.documents is read in every turn that passes the filter, and an index beyond
\* its end raises IndexError
SearchCollect ==
  /\ s_pc = "collect"
  /\ IF t_j = Len(t_top)
     THEN /\ s_pc' = "searched"
          /\ UNCHANGED <<s_out, t_j, t_obs_docs>>
     ELSE LET i == t_top[t_j + 1]
          IN IF t_scores[i] > 0
             THEN /\ t_obs_docs' = t_obs_docs \cup {idx_documents}
                  /\ IF i <= Len(idx_documents)
                     THEN /\ s_out' = Append(s_out, idx_documents[i])
                          /\ t_j' = t_j + 1
                          /\ UNCHANGED s_pc
                     ELSE /\ s_pc' = "raised"
                          /\ UNCHANGED <<s_out, t_j>>
             ELSE /\ t_j' = t_j + 1
                  /\ UNCHANGED <<s_pc, s_out, t_obs_docs>>
  /\ UNCHANGED <<corpus, idx_documents, idx_bm25, built_from, b_pc, b_results,
                 s_query, s_k, t_scores, t_top, t_obs_bm25>>

\* -------------------------------------------- retriever.py: hybrid_retrieve
\* The queries of a hybrid_retrieve call: the user's query and what the decomposer
\* may hand back as a sub-query.
Q0 == <<"A", " ", "b">>
Qc == <<"c">>
HQueries == {Q0, Qc}
SubQueryLists == {<<>>, <<Qc>>, <<Q0>>}

\* What the decomposition provider does: llm.invoke raises, or response.content is
\* text that is not JSON, JSON that is not an array, or a JSON array.
DecompReplies ==
  {[kind |-> "raises", islist |-> FALSE, value |-> <<>>],
   [kind |-> "unparseable", islist |-> FALSE, value |-> <<>>],
   [kind |-> "json", islist |-> FALSE, value |-> <<>>]}
  \cup {[kind |-> "json", islist |-> TRUE, value |-> l] : l \in SubQueryLists}

\* mutant: the fallback returns no query at all
generate_sub_queries_empty_fallback(q, reply) ==
  IF reply.kind = "raises" THEN [raised |-> TRUE, value |-> <<>>]
  ELSE IF reply.kind = "json" /\ reply.islist THEN [raised |-> FALSE, value |-> reply.value]
  ELSE [raised |-> FALSE, value |-> <<>>]

\* retriever.py 156-185. llm.invoke (175) stands outside the try.
generate_sub_queries(q, reply) ==
  IF reply.kind = "raises" THEN [raised |-> TRUE, value |-> <<>>]
  ELSE IF reply.kind = "json" /\ reply.islist THEN [raised |-> FALSE, value |-> reply.value]
  ELSE [raised |-> FALSE, value |-> <<q>>]

\* the filters argument: None, or a dict of metadata constraints (here on the
\* metadata key source_file)
NoFilters == [given |-> FALSE, source_file |-> ""]
Filters == {NoFilters, [given |-> TRUE, source_file |-> "notes.pdf"]}
Satisfies(d, filters) == ~filters.given \/ DocTable[d].source_file = filters.source_file

\* vectorstore.py 119-151: what the store does for the query, its chunks
\* restricted by the where filter when filters is truthy
similarity_search(outcome, filters) ==
  [raised |-> outcome.raised,
   value |-> SelectSeq(outcome.value, LAMBDA d : Satisfies(d, filters))]

\* vectorstore.similarity_search for one query: the store raises, or returns chunks
DenseOutcomes ==
  {[raised |-> TRUE, value |-> <<>>]}
  \cup {[raised |-> FALSE, value |-> l] : l \in {<<>>, <<2>>, <<4, 1>>}}

\* the index object as a pair, and what build_from_vectorstore (33-50) and
\* get_bm25_index (70-74) make of it over the collection c
IndexOf(documents, bm25) == [documents |-> documents, bm25 |-> bm25]
build_from_vectorstore(c, index) ==
  IF c # <<>> THEN IndexOf(c, [built |-> TRUE, docs |-> c]) ELSE index
get_bm25_index(c, index) ==
  IF ~index.bm25.built THEN build_from_vectorstore(c, index) ELSE index

\* retriever.py 239-241: bm25 = get_bm25_index(); bm25.search(q, k=TOP_K_RETRIEVAL),
\* the keyword part of hybrid_retrieve for one query over the collection c
KeywordPart(c, index, q) ==
  LET bm25 == get_bm25_index(c, index)
  IN [index |-> bm25,
      results |-> BM25Search(bm25.documents, bm25.bm25, q, TOP_K_RETRIEVAL)]

\* the keyword part of a hybrid_retrieve call, on the shared index
KeywordSearch ==
  /\ \E q \in SearchQueries :
     \E part \in {KeywordPart(corpus, IndexOf(idx_documents, idx_bm25), q)} :
       /\ idx_documents' = part.index.documents
       /\ idx_bm25' = part.index.bm25
       /\ s_query' = q
       /\ s_out' = part.results
  /\ built_from' = IF ~idx_bm25.built THEN [called |-> TRUE, documents |-> corpus]
                   ELSE built_from
  /\ s_k' = TOP_K_RETRIEVAL
  /\ s_pc' = "searched"
  /\ UNCHANGED corpus

RECURSIVE Concat(_)
Concat(seqs) == IF seqs = <<>> THEN <<>> ELSE Head(seqs) \o Concat(Tail(seqs))

\* mutant: the sub-queries alone, the original query not appended
HybridQueriesSubOnly(q, multi_hop, reply) ==
  IF multi_hop
  THEN LET g == generate_sub_queries(q, reply)
       IN [raised |-> g.raised, value |-> g.value]
  ELSE [raised |-> FALSE, value |-> <<q>>]

\* retriever.py 222-227: the queries searched
HybridQueries(q, multi_hop, reply) ==
  IF multi_hop
  THEN LET g == generate_sub_queries(q, reply)
       IN [raised |-> g.raised, value |-> IF g.raised THEN <<>> ELSE Append(g.value, q)]
  ELSE [raised |-> FALSE, value |-> <<q>>]

\* mutant: the reranker is called whenever use_reranker is set
UsesRerankerAlways(use_reranker, merged) == use_reranker

\* retriever.py 248: if use_reranker and merged
UsesReranker(use_reranker, merged) == use_reranker /\ merged # <<>>

VARIABLES
  h_pc,            \* "call" before hybrid_retrieve runs, "done" after
  h_query, h_k, h_use_reranker, h_multi_hop, h_filters,   \* its arguments
  h_reply,         \* what the decomposition provider does in this call
  h_dense,         \* what the dense search does for each query
  h_model,         \* what the cross-encoder does in this call
  h_queries,       \* the local queries
  h_dense_pool,    \* all_dense_results
  h_sparse_pool,   \* all_sparse_results
  h_fused,         \* merged
  h_dense_calls,   \* the query of every vectorstore.similarity_search call made
  h_sparse_calls,  \* the query of every bm25.search call made
  h_fusion_calls,  \* the argument of every reciprocal_rank_fusion call made
  h_rerank_calls,  \* the arguments of every rerank_documents call made
  h_failed,        \* the component whose exception left the call, "" if none
  h_out            \* what the call did: raised, or the returned list

hybridVars == <<h_pc, h_query, h_k, h_use_reranker, h_multi_hop, h_reply, h_dense, h_model,
                h_queries, h_dense_pool, h_sparse_pool, h_fused, h_rerank_calls, h_failed,
                h_out, h_filters, h_dense_calls, h_sparse_calls, h_fusion_calls>>

NoModel == [kind |-> "not_called", scores |-> <<>>]

\* the collection and the index a call may find: nothing indexed and nothing to
\* index, an index not yet built over a filled collection, a built index
IndexedCorpus == <<1, 3, 5>>

HybridInit ==
  /\ corpus \in {<<>>, IndexedCorpus}
  /\ \/ idx_documents = <<>> /\ idx_bm25 = NoBM25 /\ built_from = NeverBuilt
     \/ /\ idx_documents = IndexedCorpus
        /\ idx_bm25 = [built |-> TRUE, docs |-> IndexedCorpus]
        /\ built_from = [called |-> TRUE, documents |-> IndexedCorpus]
  /\ s_pc = "none" /\ s_query = <<>> /\ s_k = 0 /\ s_out = <<>>
  /\ h_pc = "call"
  /\ h_query = Q0
  /\ h_k \in TopKArgs
  /\ h_use_reranker \in BOOLEAN
  /\ h_multi_hop \in BOOLEAN
  /\ h_filters \in Filters
  /\ h_dense_calls = <<>> /\ h_sparse_calls = <<>> /\ h_fusion_calls = <<>>
  /\ h_reply \in DecompReplies
  /\ h_dense \in [HQueries -> DenseOutcomes]
  /\ h_model = NoModel
  /\ h_queries = <<>>
  /\ h_dense_pool = <<>>
  /\ h_sparse_pool = <<>>
  /\ h_fused = <<>>
  /\ h_rerank_calls = <<>>
  /\ h_failed = ""
  /\ h_out = [raised |-> FALSE, value |-> <<>>]

HybridIdle ==
  /\ h_pc = "idle" /\ h_query = <<>> /\ h_k = NoneArg /\ h_use_reranker = FALSE
  /\ h_multi_hop = FALSE /\ h_reply = [kind |-> "unparseable", islist |-> FALSE, value |-> <<>>]
  /\ h_dense = << >> /\ h_model = NoModel /\ h_queries = <<>> /\ h_dense_pool = <<>>
  /\ h_sparse_pool = <<>> /\ h_fused = <<>> /\ h_rerank_calls = <<>> /\ h_failed = ""
  /\ h_out = [raised |-> FALSE, value |-> <<>>]
  /\ h_filters = NoFilters
  /\ h_dense_calls = <<>> /\ h_sparse_calls = <<>> /\ h_fusion_calls = <<>>

\* the call ends with the exception of the named component
HybridRaises(component) ==
  /\ h_failed' = component
  /\ h_out' = [raised |-> TRUE, value |-> <<>>]
  /\ UNCHANGED <<h_model, h_dense_pool, h_sparse_pool, h_fused, h_rerank_calls,
                 h_fusion_calls>>

\* retriever.py 229-241: the loop over the queries, every dense search having
\* returned: the list each search returns, per query; index is what
\* get_bm25_index returns
HybridLists(queries, dense, filters, index) ==
  [dense |-> [i \in DOMAIN queries |-> similarity_search(dense[queries[i]], filters).value],
   sparse |-> [i \in DOMAIN queries |->
                 BM25Search(index.documents, index.bm25, queries[i], TOP_K_RETRIEVAL)]]

\* the position in queries of the first dense search that raises
FirstRaise(queries, dense) ==
  CHOOSE i \in DOMAIN queries :
    /\ dense[queries[i]].raised
    /\ \A j \in 1..(i - 1) : ~dense[queries[j]].raised

\* mutant: every per-query list is a fusion input of its own
FusionInputsPerQuery(dense_lists, sparse_lists) == dense_lists \o sparse_lists

\* retriever.py 236, 242, 245: the per-query lists extend all_dense_results and
\* all_sparse_results, and the two pools are the argument of the fusion
FusionInputs(dense_lists, sparse_lists) == <<Concat(dense_lists), Concat(sparse_lists)>>

\* retriever.py 247-253: the last step, on the fused list
HybridFinish(merged, k) ==
  IF UsesReranker(h_use_reranker, merged)
  THEN \E model \in ModelOutcomes(Len(merged)) :
         /\ h_model' = model
         /\ h_rerank_calls' = <<[query |-> h_query, documents |-> merged, top_k |-> k]>>
         /\ h_out' = rerank_documents(h_query, merged, IntArg(k), model)
  ELSE /\ h_out' = [raised |-> FALSE, value |-> SliceTo(merged, k)]
       /\ UNCHANGED <<h_model, h_rerank_calls>>

\* retriever.py 229-253 for the queries of the call
HybridSearch(queries, k) ==
  \* the loop reaches get_bm25_index once the first dense search has returned
  \E reached \in {queries # <<>> /\ ~h_dense[queries[1]].raised} :
  \E index \in {IF reached THEN get_bm25_index(corpus, IndexOf(idx_documents, idx_bm25))
                ELSE IndexOf(idx_documents, idx_bm25)} :
    /\ idx_documents' = index.documents
    /\ idx_bm25' = index.bm25
    /\ built_from' = IF reached /\ ~idx_bm25.built
                     THEN [called |-> TRUE, documents |-> corpus]
                     ELSE built_from
    /\ IF \E i \in DOMAIN queries : h_dense[queries[i]].raised
       THEN \E i \in {FirstRaise(queries, h_dense)} :
              /\ h_dense_calls' = SubSeq(queries, 1, i)
              /\ h_sparse_calls' = SubSeq(queries, 1, i - 1)
              /\ HybridRaises("dense")
       ELSE \E lists \in {HybridLists(queries, h_dense, h_filters, index)} :
            \E inputs \in {FusionInputs(lists.dense, lists.sparse)} :
            \E merged \in {reciprocal_rank_fusion(inputs, RRF_K)} :
              /\ h_dense_calls' = queries
              /\ h_sparse_calls' = queries
              /\ h_dense_pool' = Concat(lists.dense)
              /\ h_sparse_pool' = Concat(lists.sparse)
              /\ h_fusion_calls' = <<inputs>>
              /\ h_fused' = merged
              /\ h_failed' = ""
              /\ HybridFinish(merged, k)

\* retriever.py 190-253, the whole call
HybridRetrieve ==
  /\ h_pc = "call"
  /\ h_pc' = "done"
  /\ \E qs \in {HybridQueries(h_query, h_multi_hop, h_reply)} :
       IF qs.raised
       THEN /\ HybridRaises("decomposer")
            /\ UNCHANGED <<h_queries, idx_documents, idx_bm25, built_from,
                           h_dense_calls, h_sparse_calls>>
       ELSE /\ h_queries' = qs.value
            /\ HybridSearch(qs.value, IF h_k.given THEN h_k.v ELSE TOP_K_RERANK)
  /\ UNCHANGED <<corpus, s_pc, s_query, s_k, s_out, h_query, h_k, h_use_reranker,
                 h_multi_hop, h_filters, h_reply, h_dense>>

\* ------------------------------------------- api.py: upload and delete requests
\* One uploaded file: its name, whether its extension is in SUPPORTED_EXTENSIONS, and
\* what load_and_process_file does with it (raises, or returns chunks of that source)
FileChunks ==
  [f \in SourceFiles |->
     {c \in Corpora : /\ \A i \in DOMAIN c : DocTable[c[i]].source_file = f
                      /\ \A i, j \in DOMAIN c : i < j => c[i] < c[j]}]
UnsupportedFile == [filename |-> "setup.exe", supported |-> FALSE, raises |-> FALSE, chunks |-> <<>>]
UploadFiles ==
  {UnsupportedFile}
  \cup {[filename |-> f, supported |-> TRUE, raises |-> TRUE, chunks |-> <<>>] : f \in SourceFiles}
  \cup UNION {{[filename |-> f, supported |-> TRUE, raises |-> FALSE, chunks |-> c] :
                 c \in FileChunks[f]} : f \in SourceFiles}
UploadRequests ==
  {fs \in SeqsUpTo(UploadFiles, MaxFiles) :
     /\ fs # <<>>
     /\ \A i, j \in DOMAIN fs : i # j => fs[i].filename # fs[j].filename}

\* vectorstore.add_documents on one batch: stored; an error that is not a rate limit,
\* which it re-raises; rate-limited on every attempt, which skips the batch
AddOutcomes == {"stored", "raises", "skipped"}

\* vectorstore.delete_documents_by_source on the collection c
delete_documents_by_source(c, source_file) ==
  Filter(c, [d \in Docs |-> DocTable[d].source_file # source_file])

\* api.py 136-161: the loop over the files of the request
RECURSIVE UploadLoop(_, _, _, _)
UploadLoop(files, c, all_chunks, mutated) ==
  IF files = <<>>
  THEN [status |-> "200", corpus |-> c, all_chunks |-> all_chunks, mutated |-> mutated]
  ELSE LET file == Head(files)
           c1 == delete_documents_by_source(c, file.filename)
       IN IF ~file.supported
          THEN [status |-> "400", corpus |-> c, all_chunks |-> all_chunks, mutated |-> mutated]
          ELSE IF file.raises
          THEN [status |-> "500", corpus |-> c1, all_chunks |-> all_chunks,
                mutated |-> mutated \/ c1 # c]
          ELSE UploadLoop(Tail(files), c1, all_chunks \o file.chunks, mutated \/ c1 # c)

VARIABLES
  api_op,        \* the last request handled: none, upload, delete
  api_status,    \* its HTTP status
  api_mutated,   \* whether it changed the collection
  api_rebuilt    \* whether it called rebuild_bm25_index after its last change

apiVars == <<api_op, api_status, api_mutated, api_rebuilt>>

ApiInit ==
  /\ BM25Init
  /\ api_op = "none" /\ api_status = "" /\ api_mutated = FALSE /\ api_rebuilt = FALSE

ApiIdle == api_op = "idle" /\ api_status = "" /\ api_mutated = FALSE /\ api_rebuilt = FALSE

\* the request ends without a rebuild, the collection being c
EndsWithoutRebuild(c, status, mutated) ==
  /\ corpus' = c
  /\ api_status' = status
  /\ api_mutated' = mutated
  /\ api_rebuilt' = FALSE
  /\ UNCHANGED <<idx_documents, idx_bm25, built_from>>

\* the request calls rebuild_bm25_index, the collection being c, and ends
EndsWithRebuild(c, mutated) ==
  \E index \in {build_from_vectorstore(c, IndexOf(idx_documents, idx_bm25))} :
    /\ corpus' = c
    /\ idx_documents' = index.documents
    /\ idx_bm25' = index.bm25
    /\ built_from' = [called |-> TRUE, documents |-> c]
    /\ api_status' = "200"
    /\ api_mutated' = mutated
    /\ api_rebuilt' = TRUE

\* api.py 121-168: POST /api/upload
upload_notes ==
  /\ api_op' = "upload"
  /\ \E files \in UploadRequests, added \in AddOutcomes :
     \E loop \in {UploadLoop(files, corpus, <<>>, FALSE)} :
       IF loop.status # "200" \/ loop.all_chunks = <<>>
       THEN EndsWithoutRebuild(loop.corpus, loop.status, loop.mutated)
       ELSE IF added = "raises"
       THEN EndsWithoutRebuild(loop.corpus, "500", loop.mutated)
       ELSE IF added = "stored"
       THEN EndsWithRebuild(loop.corpus \o loop.all_chunks, TRUE)
       ELSE EndsWithRebuild(loop.corpus, loop.mutated)
  /\ NoSearch

\* api.py 230-243: DELETE /api/documents/{filename}; delete_questions_by_source
\* may raise between the deletion of the chunks and the rebuild
api_delete_document ==
  /\ api_op' = "delete"
  /\ \E filename \in SourceFiles, quiz_delete_raises \in BOOLEAN :
     \E c \in {delete_documents_by_source(corpus, filename)} :
       IF quiz_delete_raises
       THEN EndsWithoutRebuild(c, "500", c # corpus)
       ELSE EndsWithRebuild(c, c # corpus)
  /\ NoSearch

\* ------------------------------------------- quiz_mode.py: the question bank
VARIABLES
  q_rows    \* the questions table: row id -> status and whether its text was edited;
            \* ids come from AUTOINCREMENT, so a deleted row keeps its id ("deleted")

quizVars == <<q_rows>>

QuizInit == q_rows = <<>>
QuizIdle == q_rows = <<>>

PendingRow == [status |-> "pending", edited |-> FALSE]
ReviewActions == {"accept", "reject", "edit", "skip"}

\* quiz_mode.py 203-242: every question that inserts is saved with status 'pending'
save_generated_questions ==
  /\ Len(q_rows) < MaxQuestions
  /\ \E saved \in 1..(MaxQuestions - Len(q_rows)) :
       q_rows' = q_rows \o [i \in 1..saved |-> PendingRow]

\* quiz_mode.py 303-332: what the UPDATE ... WHERE id = ? of each action makes of
\* the row with that id
ReviewedRow(row, action, has_edited_data) ==
  IF action = "accept" THEN [row EXCEPT !.status = "accepted"]
  ELSE IF action = "reject" THEN [row EXCEPT !.status = "rejected"]
  ELSE IF action = "edit" /\ has_edited_data
  THEN [row EXCEPT !.status = "accepted", !.edited = TRUE]
  ELSE row

\* quiz_mode.py 289-335; an id without a row updates nothing
review_question ==
  \E question_id \in 1..MaxQuestions, action \in ReviewActions, has_edited_data \in BOOLEAN :
    q_rows' = IF question_id \in DOMAIN q_rows /\ q_rows[question_id].status # "deleted"
              THEN [q_rows EXCEPT ![question_id] = ReviewedRow(@, action, has_edited_data)]
              ELSE q_rows

\* quiz_mode.py 245-252
delete_question_by_id ==
  \E question_id \in DOMAIN q_rows :
    /\ q_rows[question_id].status # "deleted"
    /\ q_rows' = [q_rows EXCEPT ![question_id] = [status |-> "deleted", edited |-> FALSE]]

\* ------------------------------------------- vectorstore.py: add_documents
\* Documents are counted, not told apart: the call is about batches and attempts.
\* vectorstore.add_documents of the store (Chroma) on one batch stores the whole
\* batch, or raises a rate-limit error ("429" / "RESOURCE_EXHAUSTED" in its text),
\* or raises another error; a raising attempt stores nothing.
VARIABLES
  d_pc,           \* "call", "attempt" (inside the retry loop), "done", "raised"
  d_n,            \* len(documents)
  d_i,            \* the loop variable i, the start of the current batch
  d_attempt,      \* the loop variable attempt
  d_total_added,  \* total_added
  d_out,          \* the returned count
  d_stored,       \* history: the number of documents the store took in this call
  d_log           \* history: per batch, the outcome of each attempt made on it

addVars == <<d_pc, d_n, d_i, d_attempt, d_total_added, d_out, d_stored, d_log>>

AddInit ==
  /\ d_pc = "call"
  /\ d_n \in 0..MaxDocs
  /\ d_i = 0 /\ d_attempt = 0 /\ d_total_added = 0 /\ d_out = 0 /\ d_stored = 0
  /\ d_log = <<>>

AddIdle ==
  /\ d_pc = "idle" /\ d_n = 0 /\ d_i = 0 /\ d_attempt = 0 /\ d_total_added = 0
  /\ d_out = 0 /\ d_stored = 0 /\ d_log = <<>>

\* len(documents[i : i + batch_size])
BatchLen(n, i) == Min(batch_size, n - i)

\* the outcome o of one more attempt on the current batch, written to the log
Logged(o) ==
  IF d_attempt = 0 THEN Append(d_log, <<o>>)
  ELSE [d_log EXCEPT ![Len(d_log)] = Append(@, o)]

\* vectorstore.py 78-92: the empty list returns 0; otherwise the first batch
AddBegin ==
  /\ d_pc = "call"
  /\ IF d_n = 0
     THEN d_pc' = "done" /\ d_out' = 0
     ELSE d_pc' = "attempt" /\ d_out' = d_out
  /\ UNCHANGED <<d_n, d_i, d_attempt, d_total_added, d_stored, d_log>>

\* vectorstore.py 110-116: the batch is left behind; the next one, or the return
NextBatch(total) ==
  /\ d_attempt' = 0
  /\ d_total_added' = total
  /\ d_i' = d_i + batch_size
  /\ IF d_i' < d_n
     THEN d_pc' = "attempt" /\ d_out' = d_out
     ELSE d_pc' = "done" /\ d_out' = total

\* vectorstore.py 97-101: the store takes the batch
AttemptStores ==
  /\ d_pc = "attempt"
  /\ d_stored' = d_stored + BatchLen(d_n, d_i)
  /\ d_log' = Logged("stored")
  /\ NextBatch(d_total_added + BatchLen(d_n, d_i))
  /\ UNCHANGED d_n

\* mutant: a further attempt after the last rate-limited one
AnotherAttemptAfterLast(attempt) == attempt < max_retries

\* for attempt in range(max_retries): a further attempt follows this one
AnotherAttempt(attempt) == attempt + 1 < max_retries

\* vectorstore.py 102-106: a rate-limit error; wait, then the next attempt, and
\* after the last attempt the batch is left behind
AttemptRateLimited ==
  /\ d_pc = "attempt"
  /\ d_log' = Logged("rate_limited")
  /\ IF AnotherAttempt(d_attempt)
     THEN /\ d_attempt' = d_attempt + 1
          /\ UNCHANGED <<d_pc, d_i, d_total_added, d_out>>
     ELSE NextBatch(d_total_added)
  /\ UNCHANGED <<d_n, d_stored>>

\* vectorstore.py 107-108: any other error is re-raised
AttemptRaises ==
  /\ d_pc = "attempt"
  /\ d_log' = Logged("error")
  /\ d_pc' = "raised"
  /\ UNCHANGED <<d_n, d_i, d_attempt, d_total_added, d_out, d_stored>>

\* ------------------------------------------------------- agent.py: rag_answer
VARIABLES
  maxIterations,    \* config.MAX_REFLECTION_ITERATIONS
  query,            \* the user's question
  a_pc,             \* position in rag_answer: retrieve, generate, reflect, done, raised
  iteration,        \* the loop variable of `for iteration in range(...)`
  iterations, current_query, chunks, answer,
  best_answer, best_confidence, best_chunks,
  result,           \* the returned dict, None until rag_answer returns
  retrieve_log,     \* the query of every hybrid_retrieve call so far, in order
  generate_log,     \* the question of every generation prompt so far, in order
  n_reflect,        \* number of reflect_on_answer calls so far
  reflection,       \* what the last reflect_on_answer call returned
  exit,             \* the return statement taken: none, no_context, accept, exhausted
  earlier_best,     \* history: the highest-confidence reflected attempt so far
  stub_run,         \* history: every reflection so far was the stub verdict
                    \* (confidence 0.1, retry suggestion "revised") / asked to retry
  confidence_log    \* history: the confidence every reflection so far reported

agentVars == <<maxIterations, query, a_pc, iteration, iterations, current_query,
               chunks, answer, best_answer, best_confidence, best_chunks, result,
               retrieve_log, generate_log, n_reflect, reflection, exit, earlier_best,
               stub_run, confidence_log>>

Queries == {"q"}
RetrySuggestions == {"", "revised"}
Answers == {"ans1", "ans2"}
\* what hybrid_retrieve may return to the loop
RetrievalResults == {<<>>, <<2>>, <<1, 3>>}
\* JSON values an object of the reply may hold under a key: the key may be missing
\* (present FALSE), hold a number (n, in tenths for a confidence), or hold
\* something that is no number (a string, null)
Missing == [present |-> FALSE, isnum |-> FALSE, n |-> 0]
Num(n) == [present |-> TRUE, isnum |-> TRUE, n |-> n]
NotANumber == [present |-> TRUE, isnum |-> FALSE, n |-> 0]
ConfidenceValues == {Num(0), Num(1), Num(3), Num(6), Num(9), NotANumber, Missing}
\* should_retry / retry_suggestion pairs; "missing" stands for an absent key
RetryValues == ({"true", "false"} \X RetrySuggestions) \cup {<<"missing", "missing">>}

NO_INFO_ANSWER == "I couldn't find relevant information in the uploaded course materials. Please check if the relevant notes have been uploaded."

\* The provider's reply to the reflection prompt: text json.loads rejects, or a
\* JSON value: an object (keys present or missing) or something else (a list).
ReflectionObjects ==
  {[overall_confidence |-> c, should_retry |-> r[1], retry_suggestion |-> r[2]] :
     c \in ConfidenceValues, r \in RetryValues}
EmptyObject == [overall_confidence |-> Missing, should_retry |-> "missing",
                retry_suggestion |-> "missing"]
ReflectionReplies ==
  {[kind |-> "unparseable", isdict |-> FALSE, value |-> EmptyObject],
   [kind |-> "json", isdict |-> FALSE, value |-> EmptyObject]}
  \cup {[kind |-> "json", isdict |-> TRUE, value |-> v] : v \in ReflectionObjects}

\* reflect_on_answer: the parsed reply, or the fallback verdict when parsing fails
reflect_on_answer(reply) ==
  IF reply.kind = "json" THEN reply
  ELSE [kind |-> "json", isdict |-> TRUE,
        value |-> [overall_confidence |-> Num(DEFAULT_CONFIDENCE),
                   should_retry |-> "false", retry_suggestion |-> ""]]

\* reflection.get("overall_confidence", 0.5)
GetConfidence(refl) ==
  IF refl.value.overall_confidence.present
  THEN refl.value.overall_confidence
  ELSE Num(DEFAULT_CONFIDENCE)

\* Python truthiness of the values a verdict carries
Truthy(v) == v \notin {"missing", "false", ""}

\* mutant: a strict comparison with the threshold
AcceptsStrict(confidence) == confidence > CONFIDENCE_THRESHOLD

\* confidence >= config.CONFIDENCE_THRESHOLD
Accepts(confidence) == confidence >= CONFIDENCE_THRESHOLD

\* mutant: the retry suggestion taken whenever it is non-empty
NextQueryAnySuggestion(refl, cur) ==
  IF Truthy(refl.value.retry_suggestion) THEN refl.value.retry_suggestion ELSE cur

\* the query of the next retrieval (agent.py 217-218)
NextQuery(refl, cur) ==
  IF Truthy(refl.value.should_retry) /\ Truthy(refl.value.retry_suggestion)
  THEN refl.value.retry_suggestion ELSE cur

\* rag_answer has not returned: no result yet
NoResult == [answer |-> None, citations |-> <<>>, confidence |-> 0, chunks_used |-> 0,
             iterations |-> 0]

AgentInit ==
  /\ maxIterations \in 0..MaxReflect
  /\ query \in Queries
  /\ a_pc = "retrieve"
  /\ iteration = 0
  /\ iterations = 0
  /\ current_query = query
  /\ chunks = <<>>
  /\ answer = ""
  /\ best_answer = ""
  /\ best_confidence = 0
  /\ best_chunks = <<>>
  /\ result = NoResult
  /\ retrieve_log = <<>>
  /\ generate_log = <<>>
  /\ n_reflect = 0
  /\ reflection = [kind |-> "json", isdict |-> FALSE, value |-> EmptyObject]
  /\ exit = "none"
  /\ earlier_best = [answer |-> "", chunks |-> <<>>, confidence |-> 0]
  /\ stub_run = [low_revised |-> TRUE, should_retry |-> TRUE]
  /\ confidence_log = <<>>

\* mutant: the zero-based loop variable reported as the iteration count
no_context_result_zero_based(its) ==
  [answer |-> NO_INFO_ANSWER, citations |-> <<>>, confidence |-> 0, chunks_used |-> 0,
   iterations |-> its - 1]

\* agent.py 181-188: the dict returned when retrieval yields nothing
no_context_result(its) ==
  [answer |-> NO_INFO_ANSWER, citations |-> <<>>, confidence |-> 0, chunks_used |-> 0,
   iterations |-> its]

\* agent.py 170-188: the loop head, hybrid_retrieve and the empty-result return
Retrieve ==
  /\ a_pc = "retrieve"
  /\ iterations' = iteration + 1
  /\ retrieve_log' = Append(retrieve_log, current_query)
  /\ \E r \in RetrievalResults :
       /\ chunks' = r
       /\ IF r = <<>>
          THEN /\ result' = no_context_result(iterations')
               /\ a_pc' = "done"
               /\ exit' = "no_context"
          ELSE /\ result' = result
               /\ a_pc' = "generate"
               /\ exit' = exit
  /\ UNCHANGED <<maxIterations, query, iteration, current_query, answer, best_answer,
                 best_confidence, best_chunks, generate_log, n_reflect, reflection,
                 earlier_best, stub_run, confidence_log>>

\* mutant: the prompt built with the current, possibly revised, query
GenerationQuestionCurrent(original, current) == current

\* agent.py 192-196: RAG_GENERATION_PROMPT.format(..., question=query)
GenerationQuestion(original, current) == original

\* agent.py 190-199: the generation prompt is built with question=query
Generate ==
  /\ a_pc = "generate"
  /\ generate_log' = Append(generate_log, GenerationQuestion(query, current_query))
  /\ \E a \in Answers : answer' = a
  /\ a_pc' = "reflect"
  /\ UNCHANGED <<maxIterations, query, iteration, iterations, current_query, chunks,
                 best_answer, best_confidence, best_chunks, result, retrieve_log, n_reflect,
                 reflection, exit, earlier_best, stub_run, confidence_log>>

\* mutant: the loop as range(MAX_REFLECTION_ITERATIONS), one cycle fewer
ReflectsOnOneFewer(it, maxIt) == it + 1 < maxIt

\* iteration < config.MAX_REFLECTION_ITERATIONS: every iteration of
\* range(MAX_REFLECTION_ITERATIONS + 1) but the last is reflected on
ReflectsOn(it, maxIt) == it < maxIt

\* mutant: the running best overwritten by every reflected attempt
IsBetterOrLater(confidence, best) == TRUE

\* agent.py 221: if confidence > best_confidence
IsBetter(confidence, best) == confidence > best

\* the stub verdict of the reflective-loop test: confidence 0.1, retry "revised"
IsLowRevised(r) ==
  /\ r.isdict
  /\ r.value.overall_confidence = Num(1)
  /\ r.value.retry_suggestion = "revised"

\* agent.py 202-224: a reflected iteration
Reflect ==
  /\ a_pc = "reflect"
  /\ ReflectsOn(iteration, maxIterations)
  /\ n_reflect' = n_reflect + 1
  /\ \E reply \in ReflectionReplies :
       /\ reflection' = reflect_on_answer(reply)
       /\ stub_run' = [low_revised |-> stub_run.low_revised /\ IsLowRevised(reflection'),
                       should_retry |-> stub_run.should_retry /\ reflection'.isdict
                                        /\ Truthy(reflection'.value.should_retry)]
       /\ confidence_log' =
            IF reflection'.isdict /\ GetConfidence(reflection').isnum
            THEN Append(confidence_log, GetConfidence(reflection').n)
            ELSE confidence_log
       /\ IF ~reflection'.isdict \/ ~GetConfidence(reflection').isnum
          THEN \* reflection.get on a non-dict, or >= between a non-number and a float
               /\ a_pc' = "raised"
               /\ UNCHANGED <<iteration, current_query, best_answer, best_confidence,
                              best_chunks, result, exit, earlier_best>>
          ELSE LET confidence == GetConfidence(reflection').n IN
               IF Accepts(confidence)
               THEN /\ result' = [answer |-> answer,
                                  citations |-> format_citations_block(chunks),
                                  confidence |-> confidence,
                                  chunks_used |-> Len(chunks),
                                  iterations |-> iterations]
                    /\ a_pc' = "done"
                    /\ exit' = "accept"
                    /\ UNCHANGED <<iteration, current_query, best_answer, best_confidence,
                                   best_chunks, earlier_best>>
               ELSE /\ current_query' = NextQuery(reflection', current_query)
                    /\ IF IsBetter(confidence, best_confidence)
                       THEN /\ best_answer' = answer
                            /\ best_confidence' = confidence
                            /\ best_chunks' = chunks
                            /\ earlier_best' = [answer |-> answer, chunks |-> chunks,
                                                confidence |-> confidence]
                       ELSE UNCHANGED <<best_answer, best_confidence, best_chunks,
                                        earlier_best>>
                    /\ iteration' = iteration + 1
                    /\ a_pc' = "retrieve"
                    /\ UNCHANGED <<result, exit>>
  /\ UNCHANGED <<maxIterations, query, iterations, chunks, answer, retrieve_log,
                 generate_log>>

\* mutant: the running best of the reflected attempts is returned when there is one
LastIterationReturnsBest ==
  /\ a_pc = "reflect"
  /\ ~ReflectsOn(iteration, maxIterations)
  /\ best_answer' = IF best_confidence > 0 THEN best_answer ELSE answer
  /\ best_chunks' = IF best_confidence > 0 THEN best_chunks ELSE chunks
  /\ result' = [answer |-> best_answer',
                citations |-> format_citations_block(best_chunks'),
                confidence |-> best_confidence,
                chunks_used |-> Len(best_chunks'),
                iterations |-> iterations]
  /\ a_pc' = "done"
  /\ exit' = "exhausted"
  /\ UNCHANGED <<maxIterations, query, iteration, iterations, current_query, chunks,
                 answer, best_confidence, retrieve_log, generate_log, n_reflect,
                 reflection, earlier_best, stub_run, confidence_log>>

\* agent.py 225-237: the last iteration is not reflected on; the loop ends and
\* the function returns
LastIteration ==
  /\ a_pc = "reflect"
  /\ ~ReflectsOn(iteration, maxIterations)
  /\ best_answer' = answer
  /\ best_chunks' = chunks
  /\ result' = [answer |-> best_answer',
                citations |-> format_citations_block(best_chunks'),
                confidence |-> best_confidence,
                chunks_used |-> Len(best_chunks'),
                iterations |-> iterations]
  /\ a_pc' = "done"
  /\ exit' = "exhausted"
  /\ UNCHANGED <<maxIterations, query, iteration, iterations, current_query, chunks,
                 answer, best_confidence, retrieve_log, generate_log, n_reflect,
                 reflection, earlier_best, stub_run, confidence_log>>

AgentNext == Retrieve \/ Generate \/ Reflect \/ LastIteration

AgentIdle ==
  /\ maxIterations = 0 /\ query = "" /\ a_pc = "idle" /\ iteration = 0 /\ iterations = 0
  /\ current_query = "" /\ chunks = <<>> /\ answer = "" /\ best_answer = ""
  /\ best_confidence = 0 /\ best_chunks = <<>> /\ result = NoResult
  /\ retrieve_log = <<>> /\ generate_log = <<>> /\ n_reflect = 0
  /\ reflection = [kind |-> "json", isdict |-> FALSE, value |-> EmptyObject]
  /\ exit = "none"
  /\ earlier_best = [answer |-> "", chunks |-> <<>>, confidence |-> 0]
  /\ stub_run = [low_revised |-> TRUE, should_retry |-> TRUE]
  /\ confidence_log = <<>>

\* ---------------------------------------------------------- specifications
vars == <<agentVars, fusionVars, rerankVars, bm25Vars, concVars, hybridVars, apiVars,
         quizVars, addVars>>

\* one call of rag_answer, for every outcome of its retrievals, generations and
\* reflections
Next ==
  \/ Retrieve /\ UNCHANGED <<fusionVars, rerankVars, bm25Vars, concVars, hybridVars, apiVars, quizVars, addVars>>
  \/ Generate /\ UNCHANGED <<fusionVars, rerankVars, bm25Vars, concVars, hybridVars, apiVars, quizVars, addVars>>
  \/ Reflect /\ UNCHANGED <<fusionVars, rerankVars, bm25Vars, concVars, hybridVars, apiVars, quizVars, addVars>>
  \/ LastIteration /\ UNCHANGED <<fusionVars, rerankVars, bm25Vars, concVars, hybridVars, apiVars, quizVars, addVars>>
Init == AgentInit /\ FusionIdle /\ RerankIdle /\ BM25Idle /\ ConcIdle /\ HybridIdle /\ ApiIdle /\ QuizIdle /\ AddIdle
Spec == Init /\ [][Next]_vars

\* one call of reciprocal_rank_fusion, for every argument within the bounds
FusionNext == Fuse /\ UNCHANGED <<agentVars, rerankVars, bm25Vars, concVars, hybridVars, apiVars, quizVars, addVars>>
FusionSpecInit == FusionInit /\ AgentIdle /\ RerankIdle /\ BM25Idle /\ ConcIdle /\ HybridIdle /\ ApiIdle /\ QuizIdle /\ AddIdle
FusionSpec == FusionSpecInit /\ [][FusionNext]_vars

\* one call of rerank_documents, for every argument and every behaviour of the model
RerankNext == Rerank /\ UNCHANGED <<agentVars, fusionVars, bm25Vars, concVars, hybridVars, apiVars, quizVars, addVars>>
RerankSpecInit == RerankInit /\ AgentIdle /\ FusionIdle /\ BM25Idle /\ ConcIdle /\ HybridIdle /\ ApiIdle /\ QuizIdle /\ AddIdle
RerankSpec == RerankSpecInit /\ [][RerankNext]_vars

\* the keyword index under corpus changes, rebuilds and searches
BM25Next ==
  \/ CorpusAdd /\ UNCHANGED <<agentVars, fusionVars, rerankVars, concVars, hybridVars, apiVars, quizVars, addVars>>
  \/ CorpusDelete /\ UNCHANGED <<agentVars, fusionVars, rerankVars, concVars, hybridVars, apiVars, quizVars, addVars>>
  \/ Rebuild /\ UNCHANGED <<agentVars, fusionVars, rerankVars, concVars, hybridVars, apiVars, quizVars, addVars>>
  \/ Search /\ UNCHANGED <<agentVars, fusionVars, rerankVars, concVars, hybridVars, apiVars, quizVars, addVars>>
  \/ KeywordSearch /\ UNCHANGED <<agentVars, fusionVars, rerankVars, concVars, hybridVars, apiVars, quizVars, addVars>>
BM25SpecInit == BM25Init /\ AgentIdle /\ FusionIdle /\ RerankIdle /\ ConcIdle /\ HybridIdle /\ ApiIdle /\ QuizIdle /\ AddIdle
BM25Spec == BM25SpecInit /\ [][BM25Next]_vars

\* one rebuild of the global index interleaved with one search of another request
ConcNext ==
  \/ BuildRead /\ UNCHANGED <<agentVars, fusionVars, rerankVars, hybridVars, apiVars, quizVars, addVars>>
  \/ BuildClear /\ UNCHANGED <<agentVars, fusionVars, rerankVars, hybridVars, apiVars, quizVars, addVars>>
  \/ BuildAppend /\ UNCHANGED <<agentVars, fusionVars, rerankVars, hybridVars, apiVars, quizVars, addVars>>
  \/ BuildAssign /\ UNCHANGED <<agentVars, fusionVars, rerankVars, hybridVars, apiVars, quizVars, addVars>>
  \/ SearchCheck /\ UNCHANGED <<agentVars, fusionVars, rerankVars, hybridVars, apiVars, quizVars, addVars>>
  \/ SearchScore /\ UNCHANGED <<agentVars, fusionVars, rerankVars, hybridVars, apiVars, quizVars, addVars>>
  \/ SearchCollect /\ UNCHANGED <<agentVars, fusionVars, rerankVars, hybridVars, apiVars, quizVars, addVars>>
ConcSpecInit == ConcInit /\ AgentIdle /\ FusionIdle /\ RerankIdle /\ HybridIdle /\ ApiIdle /\ QuizIdle /\ AddIdle
ConcSpec == ConcSpecInit /\ [][ConcNext]_vars

\* one call of hybrid_retrieve, for every argument, index state and behaviour of the
\* decomposer, the dense search and the cross-encoder
HybridNext == HybridRetrieve /\ UNCHANGED <<agentVars, fusionVars, rerankVars, concVars, apiVars, quizVars, addVars>>
HybridSpecInit == HybridInit /\ AgentIdle /\ FusionIdle /\ RerankIdle /\ ConcIdle /\ ApiIdle /\ QuizIdle /\ AddIdle
HybridSpec == HybridSpecInit /\ [][HybridNext]_vars

\* upload and delete requests of the API, one after the other
ApiNext ==
  \/ upload_notes /\ UNCHANGED <<agentVars, fusionVars, rerankVars, concVars, hybridVars, quizVars, addVars>>
  \/ api_delete_document /\ UNCHANGED <<agentVars, fusionVars, rerankVars, concVars, hybridVars, quizVars, addVars>>
ApiSpecInit == ApiInit /\ AgentIdle /\ FusionIdle /\ RerankIdle /\ ConcIdle /\ HybridIdle /\ QuizIdle /\ AddIdle
ApiSpec == ApiSpecInit /\ [][ApiNext]_vars

\* the question bank under generation, review and deletion
QuizOthers == <<agentVars, fusionVars, rerankVars, bm25Vars, concVars, hybridVars, apiVars,
               addVars>>
QuizNext ==
  \/ save_generated_questions /\ UNCHANGED QuizOthers
  \/ review_question /\ UNCHANGED QuizOthers
  \/ delete_question_by_id /\ UNCHANGED QuizOthers
QuizSpecInit ==
  QuizInit /\ AgentIdle /\ FusionIdle /\ RerankIdle /\ BM25Idle /\ ConcIdle /\ HybridIdle /\ ApiIdle
  /\ AddIdle
QuizSpec == QuizSpecInit /\ [][QuizNext]_vars

\* one call of add_documents, for every number of documents within the bound and
\* every behaviour of the store on every attempt
AddOthers == <<agentVars, fusionVars, rerankVars, bm25Vars, concVars, hybridVars, apiVars,
              quizVars>>
AddNext ==
  \/ AddBegin /\ UNCHANGED AddOthers
  \/ AttemptStores /\ UNCHANGED AddOthers
  \/ AttemptRateLimited /\ UNCHANGED AddOthers
  \/ AttemptRaises /\ UNCHANGED AddOthers
AddSpecInit ==
  AddInit /\ AgentIdle /\ FusionIdle /\ RerankIdle /\ BM25Idle /\ ConcIdle /\ HybridIdle
  /\ ApiIdle /\ QuizIdle
AddSpec == AddSpecInit /\ [][AddNext]_vars

\* ------------------------------------------------------------------ claims
\* rag_answer makes no call and changes nothing once it has returned
NothingAfterReturn == [][a_pc = "done" => UNCHANGED agentVars]_vars

\* the confidence the last reflection reported, when it reported a number
ReportedConfidence == GetConfidence(reflection).n
ReportsConfidence ==
  n_reflect > 0 /\ reflection.isdict /\ GetConfidence(reflection).isnum

C1_AcceptState ==
  (ReportsConfidence /\ ReportedConfidence >= CONFIDENCE_THRESHOLD)
  => /\ a_pc = "done"
     /\ exit = "accept"
     /\ result = [answer |-> answer,
                  citations |-> format_citations_block(chunks),
                  confidence |-> ReportedConfidence,
                  chunks_used |-> Len(chunks),
                  iterations |-> iteration + 1]
     /\ Len(retrieve_log) = iteration + 1
     /\ Len(generate_log) = iteration + 1
     /\ n_reflect = iteration + 1

\* C1: whenever the reflection of a non-final iteration reports a confidence at or
\* above the threshold, rag_answer returns at once with that iteration's answer,
\* that confidence, the citations and chunk count of that iteration's chunks and
\* iterations equal to the iteration's 1-based index; no retrieval, generation or
\* reflection call follows, even if iteration budget remains.
C1_AcceptReturnsAtOnce == []C1_AcceptState /\ NothingAfterReturn

\* a first reflection of 0.9 against 0.6 ends the loop after 1 iteration, budget left
C1_Witness ==
  /\ exit = "accept"
  /\ maxIterations = 2
  /\ ReportedConfidence = 9
  /\ result.iterations = 1
  /\ Len(retrieve_log) = 1

\* C2 as stated: with MAX_REFLECTION_ITERATIONS = N, non-empty retrievals and every
\* reflection below the threshold, rag_answer performs exactly N retrieval+generation
\* cycles and returns the N-th, unreflected attempt; with the stub reflector
\* (confidence 0.1, retry "revised") and N = 2 the retrievals use the query and then
\* "revised".
C2_ExactlyNCycles ==
  exit = "exhausted"
  => /\ Len(retrieve_log) = maxIterations
     /\ Len(generate_log) = maxIterations
     /\ (maxIterations = 2 /\ stub_run.low_revised => retrieve_log = <<query, "revised">>)

\* C2 amended: with MAX_REFLECTION_ITERATIONS = N, non-empty retrievals and every
\* reflection reporting a confidence below the threshold, rag_answer performs exactly
\* N + 1 retrieval+generation cycles, N of them reflected on, and returns the
\* (N+1)-th, unreflected attempt; when every reflection is confidence 0.1 with
\* should_retry true and retry suggestion "revised", the first retrieval uses the
\* user's query and every later one uses "revised". A run that ends otherwise had an
\* empty retrieval or a reflection that was not a confidence below the threshold.
C2_ExactlyNPlusOneCycles ==
  /\ exit = "exhausted"
     => /\ Len(retrieve_log) = maxIterations + 1
        /\ Len(generate_log) = maxIterations + 1
        /\ n_reflect = maxIterations
        /\ result.answer = answer
        /\ result.iterations = maxIterations + 1
        /\ retrieve_log[1] = query
        /\ (stub_run.low_revised /\ stub_run.should_retry
            => \A i \in 2..Len(retrieve_log) : retrieve_log[i] = "revised")
  /\ exit = "no_context" => chunks = <<>>
  /\ exit = "accept" => ReportsConfidence /\ ReportedConfidence >= CONFIDENCE_THRESHOLD
  /\ a_pc = "raised" => ~ReportsConfidence
  /\ a_pc = "done" => exit # "none"

\* N = 2, the stub reflector asking to retry with "revised": three cycles
C2_Witness ==
  /\ exit = "exhausted"
  /\ maxIterations = 2
  /\ stub_run.low_revised /\ stub_run.should_retry
  /\ retrieve_log = <<"q", "revised", "revised">>
  /\ Len(generate_log) = 3

C3_NoContextState ==
  (Len(retrieve_log) > 0 /\ chunks = <<>>)
  => /\ a_pc = "done"
     /\ exit = "no_context"
     /\ result = [answer |-> NO_INFO_ANSWER, citations |-> <<>>, confidence |-> 0,
                  chunks_used |-> 0, iterations |-> iteration + 1]
     /\ Len(retrieve_log) = iteration + 1
     /\ Len(generate_log) = iteration
     /\ n_reflect = iteration

\* C3: whenever hybrid_retrieve returns an empty list in iteration i, rag_answer
\* returns at once the fixed "couldn't find relevant information" answer with
\* confidence 0.0, chunks_used 0, empty citations and iterations = i; no generation
\* or reflection call is made in or after iteration i, whatever earlier iterations
\* produced.
C3_EmptyRetrievalIsTerminal == []C3_NoContextState /\ NothingAfterReturn

\* an empty retrieval in the second iteration, after a reflected first attempt
C3_Witness ==
  /\ exit = "no_context"
  /\ result.iterations = 2
  /\ best_confidence > 0
  /\ best_answer # ""

\* C4: when rag_answer exhausts its iterations without an accept and without an empty
\* retrieval, reflect_on_answer is not called on the final generation, and the
\* returned answer, citations and chunks_used are those of the final iteration, not
\* of the highest-confidence earlier attempt.
C4_ExhaustedReturnsFinalAttempt ==
  exit = "exhausted"
  => /\ n_reflect = Len(generate_log) - 1
     /\ n_reflect = iteration
     /\ result.answer = answer
     /\ result.citations = format_citations_block(chunks)
     /\ result.chunks_used = Len(chunks)

\* the final attempt differs from the best reflected attempt in answer and chunks
C4_Witness ==
  /\ exit = "exhausted"
  /\ earlier_best.confidence > 0
  /\ earlier_best.answer # answer
  /\ Len(earlier_best.chunks) # Len(chunks)
  /\ format_citations_block(earlier_best.chunks) # result.citations

\* C5: for every sequence of outcomes of the retriever, the generator and the
\* reflector, rag_answer eventually returns a result carrying an answer: in every
\* state it has returned one or can take a further step.
C5_AlwaysReturnsAnAnswer ==
  (a_pc = "done" /\ result.answer # None) \/ ENABLED AgentNext

\* the visits of the scan of f_lists, and the first visit of each key
FVisits == Visits(f_lists)
FirstVisit(key) ==
  CHOOSE i \in DOMAIN FVisits :
    /\ DocKey[FVisits[i].doc] = key
    /\ \A j \in 1..(i - 1) : DocKey[FVisits[j].doc] # key
InputKeys == {DocKey[FVisits[i].doc] : i \in DOMAIN FVisits}

\* C6: for every sequence of ranked lists (including [] and [[]], which give an
\* empty result) the output of reciprocal_rank_fusion holds exactly one entry per
\* distinct chunk identity (first 200 characters of content) occurring in any input
\* list, and that entry is the first-seen instance, scanning the lists in order and
\* each list from rank 0, with that instance's metadata.
C6_OneFirstSeenEntryPerIdentity ==
  f_pc = "done"
  => /\ {DocKey[f_out[i]] : i \in DOMAIN f_out} = InputKeys
     /\ Len(f_out) = Cardinality(InputKeys)
     /\ \A i \in DOMAIN f_out :
          /\ f_out[i] = FVisits[FirstVisit(DocKey[f_out[i]])].doc
          /\ DocTable[f_out[i]] = DocTable[FVisits[FirstVisit(DocKey[f_out[i]])].doc]
     /\ (f_lists = <<>> \/ f_lists = << <<>> >>) => f_out = <<>>

\* chunk 4 is seen before chunk 3, which shares its first 200 characters: one entry, 4
C6_Witness ==
  /\ f_pc = "done"
  /\ f_lists = << <<4, 2>>, <<3, 4>> >>
  /\ Len(f_out) = 2
  /\ \E i \in DOMAIN f_out : f_out[i] = 4 /\ DocTable[f_out[i]].page_number = 3

\* the score the claim gives a key: one term per input list in which a chunk of
\* that key appears, 1/(k + rank + 1) with rank its position in that list
RankIn(list, key) ==
  CHOOSE r \in 0..(Len(list) - 1) :
    /\ DocKey[list[r + 1]] = key
    /\ \A q \in 0..(r - 1) : DocKey[list[q + 1]] # key
RECURSIVE PerListScore(_, _, _)
PerListScore(lists, key, den) ==
  IF lists = <<>> THEN 0
  ELSE (IF \E i \in DOMAIN Head(lists) : DocKey[Head(lists)[i]] = key
        THEN den \div (RRF_K + RankIn(Head(lists), key) + 1) ELSE 0)
       + PerListScore(Tail(lists), key, den)
RECURSIVE FirstSeenKeys(_, _)
FirstSeenKeys(visits, seen) ==
  IF visits = <<>> THEN <<>>
  ELSE LET key == DocKey[Head(visits).doc]
       IN IF key \in seen THEN FirstSeenKeys(Tail(visits), seen)
          ELSE <<key>> \o FirstSeenKeys(Tail(visits), seen \cup {key})

\* C7: reciprocal_rank_fusion orders its output by descending fusion score, the
\* score of a chunk being the sum, with one term per input list in which it appears,
\* of 1/(k_constant + rank + 1) with rank its zero-based position in that list;
\* chunks of equal score come out in first-seen order.
C7_OrderedByPerListScore ==
  f_pc = "done"
  => LET den == ScoreDen(RRF_K, MaxLen(f_lists))
         claimed == [key \in InputKeys |-> PerListScore(f_lists, key, den)]
         order == SortedDesc(FirstSeenKeys(FVisits, {}), claimed)
     IN [i \in DOMAIN f_out |-> DocKey[f_out[i]]] = order

\* C8: when the relevance model cannot be loaded or raises while scoring,
\* rerank_documents raises nothing and returns exactly the first top_k chunks of its
\* input in the input order (top_k a count: None stands for config.TOP_K_RERANK).
C8_FallbackKeepsFirstTopK ==
  (r_pc = "done" /\ r_model.kind \in {"load_fails", "predict_raises"}
   /\ (r_top_k.given => r_top_k.v >= 0))
  => LET k == IF r_top_k.given THEN r_top_k.v ELSE TOP_K_RERANK
     IN /\ ~r_out.raised
        /\ Len(r_out.value) = Min(k, Len(r_documents))
        /\ \A i \in DOMAIN r_out.value : r_out.value[i] = r_documents[i]

\* predict raises on two chunks with top_k = 1: the first chunk alone comes back
C8_Witness ==
  /\ r_pc = "done"
  /\ r_model.kind = "predict_raises"
  /\ r_documents = <<3, 1>>
  /\ r_top_k = IntArg(1)
  /\ r_out = [raised |-> FALSE, value |-> <<3>>]

\* the score of the indexed chunk at position i for the query of the last search
SearchScores == get_scores(idx_bm25.docs, Tokenize(s_query))
PositionOf(d) == CHOOSE i \in DOMAIN idx_documents : idx_documents[i] = d
SharesTerm(d, q) == Range(Tokenize(DocTable[d].page_content)) \cap Range(Tokenize(q)) # {}

\* C9: BM25Index.search(query, k) returns at most k chunks, in non-increasing order
\* of lexical score, and never a chunk whose score for the query is zero (a chunk
\* sharing no term with the query is never returned), even when fewer than k match.
C9_SearchTopKNonZero ==
  s_pc = "searched"
  => /\ Len(s_out) <= s_k
     /\ \A i \in DOMAIN s_out : s_out[i] \in Range(idx_documents)
     /\ \A i, j \in DOMAIN s_out :
          i < j => SearchScores[PositionOf(s_out[i])] >= SearchScores[PositionOf(s_out[j])]
     /\ \A i \in DOMAIN s_out :
          /\ SearchScores[PositionOf(s_out[i])] # 0
          /\ SharesTerm(s_out[i], s_query)

\* three chunks indexed, two returned in strictly decreasing score, the third, which
\* shares no term with the query, left out although k is not yet reached
C9_Witness ==
  /\ s_pc = "searched"
  /\ Len(idx_documents) = 3
  /\ s_k = 3
  /\ Len(s_out) = 2
  /\ SearchScores[PositionOf(s_out[1])] > SearchScores[PositionOf(s_out[2])]
  /\ \E d \in Range(idx_documents) : ~SharesTerm(d, s_query) /\ d \notin Range(s_out)

\* C10: after the keyword index is built over exactly two chunks A and B, a search
\* (k >= 1) whose query terms occur only in A returns exactly [A].
C10_TwoChunksQueryOnlyInA ==
  (s_pc = "searched" /\ s_k >= 1 /\ Len(idx_documents) = 2 /\ idx_bm25.built
   /\ idx_bm25.docs = idx_documents)
  => \A a, b \in 1..2 :
       (/\ a # b
        /\ Tokenize(s_query) # <<>>
        /\ Range(Tokenize(s_query)) \subseteq Range(DocTokens[idx_documents[a]])
        /\ Range(Tokenize(s_query)) \cap Range(DocTokens[idx_documents[b]]) = {})
       => s_out = <<idx_documents[a]>>

\* C11: once build_from_vectorstore / rebuild_bm25_index has run, the chunks
\* BM25Index.search can return are exactly those of the corpus as that rebuild read
\* it: the index holds no chunk of an earlier snapshot, a search returns chunks of
\* that snapshot only, and after a rebuild over an empty corpus it returns [].
C11_IndexIsLastRebuildSnapshot ==
  built_from.called
  => /\ idx_documents = built_from.documents
     /\ s_pc = "searched" => Range(s_out) \subseteq Range(built_from.documents)

\* C12: when a rebuild of the shared index runs concurrently with a search, the
\* search observes one complete pair (documents, term statistics): it does not
\* raise, and every documents list it read is the list the statistics it read were
\* computed from.
C12_SearchSeesOneCompletePair ==
  s_pc \in {"searched", "raised"}
  => /\ s_pc # "raised"
     /\ \A b \in t_obs_bm25, d \in t_obs_docs : b.built /\ b.docs = d

\* the k hybrid_retrieve works with: config.TOP_K_RERANK when none is given
HybridK == IF h_k.given THEN h_k.v ELSE TOP_K_RERANK

\* C13: hybrid_retrieve returns rerank_documents(original query, fused, k) when
\* use_reranker is set and the fused list is non-empty, and otherwise the first k
\* chunks of the fused order (k a count); the reranker is never called on an empty
\* fused list; when the dense search and the keyword index return nothing, an empty
\* or unbuilt index included, the result is [] and nothing is raised.
C13_RerankOrTruncate ==
  /\ (h_pc = "done" /\ h_failed = "")
     => /\ IF h_use_reranker /\ h_fused # <<>>
           THEN /\ h_rerank_calls =
                     <<[query |-> h_query, documents |-> h_fused, top_k |-> HybridK]>>
                /\ h_out = rerank_documents(h_query, h_fused, IntArg(HybridK), h_model)
           ELSE /\ h_rerank_calls = <<>>
                /\ ~h_out.raised
                /\ HybridK >= 0
                   => /\ Len(h_out.value) = Min(HybridK, Len(h_fused))
                      /\ \A i \in DOMAIN h_out.value : h_out.value[i] = h_fused[i]
        /\ \A i \in DOMAIN h_rerank_calls : h_rerank_calls[i].documents # <<>>
        /\ (h_dense_pool = <<>> /\ h_sparse_pool = <<>>)
           => h_out = [raised |-> FALSE, value |-> <<>>]
  /\ (/\ h_pc = "done"
      /\ ~h_multi_hop
      /\ h_dense[h_query] = [raised |-> FALSE, value |-> <<>>]
      /\ ~idx_bm25.built)
     => h_out = [raised |-> FALSE, value |-> <<>>]

\* a multi-hop call whose fused list the cross-encoder reorders: the result is the
\* reranker's and differs from the head of the fused order
C13_Witness ==
  /\ h_pc = "done"
  /\ h_failed = ""
  /\ h_use_reranker /\ h_multi_hop
  /\ h_k = IntArg(1)
  /\ h_model.kind = "scores"
  /\ Len(h_fused) >= 2
  /\ h_out.value # <<>>
  /\ h_out.value # SubSeq(h_fused, 1, Len(h_out.value))

\* what generate_sub_queries returned in a multi-hop call that got past it: the
\* queries searched without the original query appended to them
SubQueriesReturned == SubSeq(h_queries, 1, Len(h_queries) - 1)
DecomposerReturned == h_pc = "done" /\ h_multi_hop /\ h_failed # "decomposer"

\* C14: when the provider's reply to the decomposition prompt is not parseable as a
\* JSON array (not JSON, or JSON of another type), generate_sub_queries returns the
\* single-element list [original query], the query unchanged.
C14_UnparseableReplyFallsBack ==
  (/\ h_pc = "done"
   /\ h_multi_hop
   /\ h_reply.kind = "unparseable" \/ (h_reply.kind = "json" /\ ~h_reply.islist))
  => /\ DecomposerReturned
     /\ SubQueriesReturned = <<h_query>>

C14_Witness ==
  /\ h_pc = "done"
  /\ h_multi_hop
  /\ h_reply.kind = "unparseable"
  /\ h_k = NoneArg
  /\ h_queries = <<Q0, Q0>>
  /\ ~h_out.raised

\* C15: for every provider reply generate_sub_queries returns a non-empty sequence,
\* also when the reply is a valid but empty JSON array.
C15_SubQueriesNonEmpty ==
  (h_pc = "done" /\ h_multi_hop /\ h_reply.kind # "raises")
  => /\ DecomposerReturned
     /\ SubQueriesReturned # <<>>

\* C16: if the dense search, the reranker model or the decomposition provider raises
\* during a hybrid_retrieve call, the call still returns a list: no exception
\* reaches its caller.
C16_NoProviderFailurePropagates ==
  h_pc = "done" => (h_failed = "" /\ ~h_out.raised)

\* C17: hybrid_retrieve called with a negative k raises; it returns no list of chunks.
C17_NegativeKRaises ==
  (h_pc = "done" /\ h_k.given /\ h_k.v < 0) => h_out.raised

\* C18: whatever text the reflection provider returns (not JSON, JSON that is not an
\* object, an object lacking the expected keys), rag_answer does not raise: no
\* reflection ends the call with an exception.
C18_MalformedReflectionNeverRaises == a_pc # "raised"

\* C19: every upload or delete request that changed the collection has called
\* rebuild_bm25_index after its last change, and once it has finished the keyword
\* index holds the chunks of the collection.
C19_MutatingRequestRebuilds ==
  (api_op \in {"upload", "delete"} /\ api_mutated)
  => /\ api_rebuilt
     /\ idx_documents = corpus

\* C20: a question is saved as 'pending', and a question that is already accepted or
\* rejected never changes status again under review calls (it can only be deleted).
C20_ReviewedStatusIsFinal ==
  [][/\ \A id \in DOMAIN q_rows' \ DOMAIN q_rows : q_rows'[id].status = "pending"
     /\ \A id \in DOMAIN q_rows :
          q_rows[id].status \in {"accepted", "rejected"}
          => q_rows'[id].status \in {q_rows[id].status, "deleted"}]_vars

\* the retrieval that follows a reflection below the threshold
RetrievalAfterReflection ==
  /\ a_pc = "retrieve"
  /\ n_reflect > 0
  /\ Len(retrieve_log') = Len(retrieve_log) + 1

\* C21 as stated: after a reflection below the threshold the next retrieval's query
\* is the verdict's retry suggestion whenever that suggestion is non-empty, and the
\* query of the previous retrieval when it is empty, whatever else the verdict holds.
C21_RetryQueryWheneverNonEmpty ==
  [][RetrievalAfterReflection =>
       retrieve_log'[Len(retrieve_log')] =
         IF reflection.value.retry_suggestion \notin {"", "missing"}
         THEN reflection.value.retry_suggestion
         ELSE retrieve_log[Len(retrieve_log)]]_vars

\* C21 amended: after a reflection below the threshold the next retrieval's query
\* is the verdict's retry suggestion when the verdict's should_retry is truthy and
\* the suggestion is non-empty; in every other case it is the query of the previous
\* retrieval, unchanged.
C21_RetryQueryWhenAskedToRetry ==
  [][RetrievalAfterReflection =>
       retrieve_log'[Len(retrieve_log')] =
         IF /\ reflection.value.should_retry = "true"
            /\ reflection.value.retry_suggestion \notin {"", "missing"}
         THEN reflection.value.retry_suggestion
         ELSE retrieve_log[Len(retrieve_log)]]_vars

\* a second retrieval used the original query although the verdict before it
\* carried the suggestion "revised" (with should_retry false)
C21_Witness ==
  /\ retrieve_log = <<"q", "q">>
  /\ n_reflect = 1
  /\ reflection.value.should_retry = "false"
  /\ reflection.value.retry_suggestion = "revised"

\* C22: the question of every generation prompt is the user's original query; a
\* query revised by a reflection reaches hybrid_retrieve only.
C22_GeneratorSeesOriginalQuery ==
  \A i \in DOMAIN generate_log : generate_log[i] = query

\* a generation followed a retrieval made with the revised query
C22_Witness ==
  /\ retrieve_log = <<"q", "revised">>
  /\ current_query = "revised"
  /\ Len(generate_log) = 2

\* what generate_sub_queries returns for the provider's reply of this call
DecomposerList ==
  IF h_reply.kind = "json" /\ h_reply.islist THEN h_reply.value ELSE <<h_query>>

IsPrefix(s, t) == Len(s) <= Len(t) /\ s = SubSeq(t, 1, Len(s))

\* C23: with multi_hop set, the queries searched are the decomposer's sub-queries
\* followed by the original query, in the dense and in the keyword modality alike,
\* whatever list the decomposer returned (its fallback, an empty list); a call that
\* a raising search ends has searched a prefix of that sequence.
C23_SubQueriesThenOriginal ==
  (h_pc = "done" /\ h_multi_hop /\ h_failed # "decomposer")
  => /\ h_failed = ""
        => /\ h_dense_calls = Append(DecomposerList, h_query)
           /\ h_sparse_calls = Append(DecomposerList, h_query)
     /\ IsPrefix(h_dense_calls, Append(DecomposerList, h_query))
     /\ IsPrefix(h_sparse_calls, h_dense_calls)

\* the decomposer returned an empty list and the original query alone was searched,
\* in both modalities, and found chunks
C23_Witness ==
  /\ h_pc = "done"
  /\ h_multi_hop
  /\ h_reply = [kind |-> "json", islist |-> TRUE, value |-> <<>>]
  /\ h_dense_calls = <<Q0>>
  /\ h_sparse_calls = <<Q0>>
  /\ h_dense_pool # <<>>
  /\ h_sparse_pool # <<>>

\* the two pools of the call, from the searches of its queries in query order
DensePoolOf(queries) ==
  Concat([i \in DOMAIN queries |-> similarity_search(h_dense[queries[i]], h_filters).value])
SparsePoolOf(queries) ==
  Concat([i \in DOMAIN queries |->
            BM25Search(idx_documents, idx_bm25, queries[i], TOP_K_RETRIEVAL)])

\* C24: a hybrid_retrieve call that gets past its searches calls
\* reciprocal_rank_fusion exactly once, on exactly two lists: the dense results of
\* all its queries concatenated in query order and the keyword results of all its
\* queries concatenated in query order; the fused list is the fusion of these two
\* pools, so a chunk's rank is its position in the pool; no call fuses more than once.
C24_OneFusionOfTwoPools ==
  /\ Len(h_fusion_calls) <= 1
  /\ (h_pc = "done" /\ h_failed = "")
     => /\ h_fusion_calls = << <<DensePoolOf(h_queries), SparsePoolOf(h_queries)>> >>
        /\ h_dense_pool = DensePoolOf(h_queries)
        /\ h_sparse_pool = SparsePoolOf(h_queries)
        /\ h_fused = reciprocal_rank_fusion(<<h_dense_pool, h_sparse_pool>>, RRF_K)

\* two queries, each with dense and keyword results of its own
C24_Witness ==
  /\ h_pc = "done"
  /\ h_failed = ""
  /\ h_queries = <<Qc, Q0>>
  /\ h_dense[Qc].value # <<>> /\ h_dense[Q0].value # <<>>
  /\ Len(h_dense_pool) = Len(h_dense[Qc].value) + Len(h_dense[Q0].value)
  /\ Len(h_sparse_pool) >= 3
  /\ Len(h_fusion_calls) = 1

FusedKeys(l) == {DocKey[l[i]] : i \in DOMAIN l}

\* the fused list of the call with multi_hop=False: the fusion of the original
\* query's dense and keyword results
SingleQueryFused ==
  reciprocal_rank_fusion(<<DensePoolOf(<<h_query>>), SparsePoolOf(<<h_query>>)>>, RRF_K)

\* C26: for the same dense and keyword results per query, every chunk (by fusion
\* identity) of the fused list of the call with multi_hop=False is in the fused list
\* of the call with multi_hop=True, whatever list the decomposer returns.
C26_MultiHopCoversSingleQuery ==
  /\ (h_pc = "done" /\ ~h_multi_hop /\ h_failed = "") => h_fused = SingleQueryFused
  /\ (h_pc = "done" /\ h_multi_hop /\ h_failed = "")
     => FusedKeys(SingleQueryFused) \subseteq FusedKeys(h_fused)

\* a sub-query other than the original one added chunks to those of the original
C26_Witness ==
  /\ h_pc = "done"
  /\ h_multi_hop
  /\ h_failed = ""
  /\ h_queries = <<Qc, Q0>>
  /\ SingleQueryFused # <<>>
  /\ FusedKeys(SingleQueryFused) # FusedKeys(h_fused)

\* C28: every chunk hybrid_retrieve returns when called with metadata filters
\* satisfies the filters: they restrict the keyword candidates as well as the dense.
C28_ResultsSatisfyFilters ==
  (h_pc = "done" /\ h_filters.given /\ ~h_out.raised)
  => \A i \in DOMAIN h_out.value : Satisfies(h_out.value[i], h_filters)

\* what a search of the index as it stands returns for q, and what the keyword part
\* of a hybrid_retrieve call over the collection c returns for q
SearchResultNow(documents, bm25, q) == BM25Search(documents, bm25, q, TOP_K_RETRIEVAL)
KeywordResultNow(c, documents, bm25, q) == KeywordPart(c, IndexOf(documents, bm25), q).results

\* C25: once the index has been used or rebuilt for the first time, a corpus
\* addition or deletion changes no result of BM25Index.search and no result of the
\* keyword part of hybrid_retrieve: only an explicit rebuild_bm25_index changes them.
C25_CorpusChangeLeavesKeywordResults ==
  [][(corpus' # corpus /\ built_from.called)
     => \A q \in SearchQueries :
          /\ SearchResultNow(idx_documents', idx_bm25', q)
               = SearchResultNow(idx_documents, idx_bm25, q)
          /\ KeywordResultNow(corpus', idx_documents', idx_bm25', q)
               = KeywordResultNow(corpus, idx_documents, idx_bm25, q)]_vars

\* the highest confidence the reflections so far reported, 0 when none exceeded 0
HighestReported ==
  Max(0, CHOOSE m \in Range(confidence_log) \cup {0} :
           \A c \in Range(confidence_log) \cup {0} : c <= m)

\* C27: when rag_answer returns after exhausting its iterations, the confidence it
\* returns is the highest confidence the reflections of the earlier iterations
\* reported (0 when none exceeded 0); it is strictly below CONFIDENCE_THRESHOLD, and
\* no reflection scored the returned final answer.
C27_ExhaustedConfidenceIsBestEarlier ==
  exit = "exhausted"
  => /\ result.confidence = HighestReported
     /\ result.confidence < CONFIDENCE_THRESHOLD
     /\ Len(confidence_log) = Len(generate_log) - 1
     /\ result.answer = answer

\* two reflections, the earlier one the more confident: its confidence is returned
\* with the answer of the third, unreflected attempt
C27_Witness ==
  /\ exit = "exhausted"
  /\ confidence_log = <<3, 1>>
  /\ result.confidence = 3
  /\ Len(generate_log) = 3

\* C29: a POST /api/upload request that ends in an error (status 400 or 500) leaves
\* the collection and the keyword index as they were before the request, and an
\* upload removes the existing chunks of a file only if chunks of that file are in
\* the collection when it ends.
C29_FailedUploadChangesNothing ==
  [][api_op' = "upload"
     => /\ api_status' \in {"400", "500"}
           => /\ corpus' = corpus
              /\ idx_documents' = idx_documents
              /\ idx_bm25' = idx_bm25
        /\ \A i \in DOMAIN corpus :
             corpus[i] \notin Range(corpus')
             => \E j \in DOMAIN corpus' :
                  DocTable[corpus'[j]].source_file = DocTable[corpus[i]].source_file]_vars

RECURSIVE StoredIn(_, _)
\* the documents of the batches of the log whose last attempt stored them, the
\* batches of a call with n documents taken in order
StoredIn(log, n) ==
  IF log = <<>> THEN 0
  ELSE LET b == Len(log)
           last == log[b][Len(log[b])]
       IN StoredIn(SubSeq(log, 1, b - 1), n)
          + (IF last = "stored" THEN BatchLen(n, (b - 1) * batch_size) ELSE 0)

\* C30: add_documents attempts each batch at most 3 times, a further attempt being
\* made only after a rate-limit error; any other error leaves the call at once; the
\* count it returns is the number of documents the store took: a batch rate-limited
\* on all 3 attempts is left behind without an exception and is not counted.
C30_ThreeAttemptsCountStored ==
  /\ \A b \in DOMAIN d_log :
       /\ Len(d_log[b]) <= max_retries
       /\ \A a \in 1..(Len(d_log[b]) - 1) : d_log[b][a] = "rate_limited"
       /\ b < Len(d_log) => d_log[b][Len(d_log[b])] # "error"
  /\ d_pc = "raised" <=> (d_log # <<>> /\ d_log[Len(d_log)][Len(d_log[Len(d_log)])] = "error")
  /\ d_pc = "done"
     => /\ d_out = d_stored
        /\ d_out = StoredIn(d_log, d_n)
        /\ Len(d_log) * batch_size >= d_n
        /\ (Len(d_log) - 1) * batch_size < d_n \/ d_n = 0

\* three batches: the first rate-limited three times and left behind, the second
\* stored at its second attempt, the third stored; 21 of 41 documents are counted
C30_Witness ==
  /\ d_pc = "done"
  /\ d_n = 41
  /\ d_log = << <<"rate_limited", "rate_limited", "rate_limited">>,
               <<"rate_limited", "stored">>, <<"stored">> >>
  /\ d_out = 21

====
